---- MODULE Spec2Model ----
(***************************************************************************)
(* A model of services/backend/app/utils.py: the three utility functions   *)
(* make_id, hash_weak_password and remove_unwanted_characters, called by    *)
(* the threads of the backend.                                              *)
(*                                                                          *)
(* A Python str is a sequence of Unicode code points (naturals), a bytes    *)
(* object a sequence of naturals below 256.  A 32-bit word of SHA-256 is a   *)
(* pair <<hi, lo>> of 16-bit halves, so that every sum stays inside TLC's   *)
(* integers and is reduced modulo 2^32 as the algorithm asks.               *)
(***************************************************************************)
EXTENDS Integers, Sequences, FiniteSets, TLC

(***************************************************************************)
(* The state: the arguments the callers pass, where each thread is, and the *)
(* calls that have ended.                                                   *)
(***************************************************************************)
VARIABLES
    input,      \* the str passed to hash_weak_password and remove_unwanted_characters
    kargs,      \* the positional arguments passed to make_id: <<>> or <<k>>
    pc,         \* pc[t]: "idle", or the function thread t is inside
    history     \* the calls that have ended: who called what, and the outcome

(***************************************************************************)
(* Bounds of the model.                                                     *)
(***************************************************************************)
\* the longest string drawn over Chars
MaxLen == 2
\* the largest length asked of make_id, besides the default
MaxK == 2

(***************************************************************************)
(* Outcomes of a call: a returned value or a raised exception.              *)
(***************************************************************************)
Returned(v) == [kind |-> "return", value |-> v, exc |-> "None"]

Raised(e) == [kind |-> "raise", value |-> <<>>, exc |-> e]

(***************************************************************************)
(* The names bound in the module's global namespace when a function runs:   *)
(* the one import and the three functions.  Neither "random" nor "string"   *)
(* is imported.                                                             *)
(***************************************************************************)
ModuleGlobals == {"hashlib", "make_id", "hash_weak_password", "remove_unwanted_characters"}

\* string.ascii_lowercase + string.digits: 'a'..'z' then '0'..'9'
Alphabet == [i \in 1..36 |-> IF i <= 26 THEN 96 + i ELSE 21 + i]

\* the default of make_id's parameter k
DefaultK == 8

(***************************************************************************)
(* str.replace(old, new) for a non-empty old: every non-overlapping         *)
(* occurrence of old, found left to right, is replaced by new.              *)
(***************************************************************************)
RECURSIVE replace(_, _, _)
replace(str, old, new) ==
    IF Len(str) < Len(old) THEN str
    ELSE IF SubSeq(str, 1, Len(old)) = old
         THEN new \o replace(SubSeq(str, Len(old) + 1, Len(str)), old, new)
         ELSE <<Head(str)>> \o replace(Tail(str), old, new)

\* str.replace(old, new, 1): only the first occurrence is replaced
RECURSIVE replace_first(_, _, _)
replace_first(str, old, new) ==
    IF Len(str) < Len(old) THEN str
    ELSE IF SubSeq(str, 1, Len(old)) = old
         THEN new \o SubSeq(str, Len(old) + 1, Len(str))
         ELSE <<Head(str)>> \o replace_first(Tail(str), old, new)

\* the code point of '<'
LT == 60

\* s.replace("<", "", 1)
remove_first_only(s) == Returned(replace_first(s, <<LT>>, <<>>))

\* s.replace("<", "").replace(">", "")
remove_both_brackets(s) == Returned(replace(replace(s, <<LT>>, <<>>), <<62>>, <<>>))

\* s.replace("<", " ")
remove_padded(s) == Returned(replace(s, <<LT>>, <<32>>))

\* def remove_unwanted_characters(s): return s.replace("<", "")
remove_unwanted_characters(s) == Returned(replace(s, <<LT>>, <<>>))

(***************************************************************************)
(* str.encode(): UTF-8, errors='strict'.  A surrogate code point            *)
(* (U+D800..U+DFFF) cannot be encoded and raises UnicodeEncodeError.        *)
(***************************************************************************)
IsSurrogate(c) == c >= 55296 /\ c <= 57343

utf8_char(c) ==
    IF c < 128 THEN <<c>>
    ELSE IF c < 2048 THEN <<192 + (c \div 64), 128 + (c % 64)>>
    ELSE IF c < 65536
         THEN <<224 + (c \div 4096), 128 + ((c \div 64) % 64), 128 + (c % 64)>>
         ELSE <<240 + (c \div 262144), 128 + ((c \div 4096) % 64),
                128 + ((c \div 64) % 64), 128 + (c % 64)>>

RECURSIVE utf8(_)
utf8(str) == IF str = <<>> THEN <<>> ELSE utf8_char(Head(str)) \o utf8(Tail(str))

encode(str) ==
    IF \E i \in 1..Len(str) : IsSurrogate(str[i])
    THEN Raised("UnicodeEncodeError")
    ELSE Returned(utf8(str))

(***************************************************************************)
(* hashlib.sha256: FIPS 180-4 SHA-256 over a sequence of bytes.             *)
(***************************************************************************)
RECURSIVE BitOp(_, _, _, _)
BitOp(xor, a, b, n) ==
    IF n = 0 THEN 0
    ELSE 2 * BitOp(xor, a \div 2, b \div 2, n - 1)
         + (IF xor THEN (a + b) % 2 ELSE (a % 2) * (b % 2))

\* the exclusive or and the conjunction of two 4-bit values
XorTab == [a \in 0..15 |-> [b \in 0..15 |-> BitOp(TRUE, a, b, 4)]]

AndTab == [a \in 0..15 |-> [b \in 0..15 |-> BitOp(FALSE, a, b, 4)]]

Nibbles(tab, a, b) ==
    tab[a % 16][b % 16]
    + 16 * tab[(a \div 16) % 16][(b \div 16) % 16]
    + 256 * tab[(a \div 256) % 16][(b \div 256) % 16]
    + 4096 * tab[a \div 4096][b \div 4096]

Xor(x, y) == <<Nibbles(XorTab, x[1], y[1]), Nibbles(XorTab, x[2], y[2])>>

And(x, y) == <<Nibbles(AndTab, x[1], y[1]), Nibbles(AndTab, x[2], y[2])>>

Not(x) == <<65535 - x[1], 65535 - x[2]>>

\* addition modulo 2^32
Add(x, y) ==
    LET lo == x[2] + y[2]
    IN  <<(x[1] + y[1] + (lo \div 65536)) % 65536, lo % 65536>>

Pow2 == [n \in 0..16 |-> 2 ^ n]

\* rotate right by n bits, 0 < n < 32
RotR(x, n) ==
    LET hi == IF n >= 16 THEN x[2] ELSE x[1]
        lo == IF n >= 16 THEN x[1] ELSE x[2]
        m  == n % 16
        p  == Pow2[m]
        q  == Pow2[16 - m]
    IN  <<(hi \div p) + (lo % p) * q, (lo \div p) + (hi % p) * q>>

\* shift right by n bits, 0 < n < 16
ShR(x, n) ==
    LET p == Pow2[n]
        q == Pow2[16 - n]
    IN  <<x[1] \div p, (x[2] \div p) + (x[1] % p) * q>>

Ch(x, y, z) == Xor(And(x, y), And(Not(x), z))

Maj(x, y, z) == Xor(Xor(And(x, y), And(x, z)), And(y, z))

BigSigma0(x) == Xor(Xor(RotR(x, 2), RotR(x, 13)), RotR(x, 22))

BigSigma1(x) == Xor(Xor(RotR(x, 6), RotR(x, 11)), RotR(x, 25))

SmallSigma0(x) == Xor(Xor(RotR(x, 7), RotR(x, 18)), ShR(x, 3))

SmallSigma1(x) == Xor(Xor(RotR(x, 17), RotR(x, 19)), ShR(x, 10))

\* the round constants: the fractional parts of the cube roots of the first 64 primes
K256 ==
  << <<17034, 12184>>, <<28983, 17553>>, <<46528, 64463>>, <<59829, 56229>>,
     <<14678, 49755>>, <<23025, 4593>>, <<37439, 33444>>, <<43804, 24277>>,
     <<55303, 43672>>, <<4739, 23297>>, <<9265, 34238>>, <<21772, 32195>>,
     <<29374, 23924>>, <<32990, 45566>>, <<39900, 1703>>, <<49563, 61812>>,
     <<58523, 27073>>, <<61374, 18310>>, <<4033, 40390>>, <<9228, 41420>>,
     <<11753, 11375>>, <<19060, 33962>>, <<23728, 43484>>, <<30457, 35034>>,
     <<38974, 20818>>, <<43057, 50797>>, <<45059, 10184>>, <<48985, 32711>>,
     <<50912, 3059>>, <<54695, 37191>>, <<1738, 25425>>, <<5161, 10599>>,
     <<10167, 2693>>, <<11803, 8504>>, <<19756, 28156>>, <<21304, 3347>>,
     <<25866, 29524>>, <<30314, 2747>>, <<33218, 51502>>, <<37490, 11397>>,
     <<41663, 59553>>, <<43034, 26187>>, <<49739, 35696>>, <<51052, 20899>>,
     <<53650, 59417>>, <<54937, 1572>>, <<62478, 13701>>, <<4202, 41072>>,
     <<6564, 49430>>, <<7735, 27656>>, <<10056, 30540>>, <<13488, 48309>>,
     <<14620, 3251>>, <<20184, 43594>>, <<23452, 51791>>, <<26670, 28659>>,
     <<29839, 33518>>, <<30885, 25455>>, <<33992, 30740>>, <<36039, 520>>,
     <<37054, 65530>>, <<42064, 27883>>, <<48889, 41975>>, <<50801, 30962>> >>

\* the initial hash value: the fractional parts of the square roots of the first 8 primes
H256 ==
  << <<27145, 58983>>, <<47975, 44677>>, <<15470, 62322>>, <<42319, 62778>>,
     <<20750, 21119>>, <<39685, 26764>>, <<8067, 55723>>, <<23520, 52505>> >>

\* the padding: 0x80, zeros up to 56 modulo 64, the bit length on 64 bits, big-endian
Pad(bytes) ==
    LET n     == Len(bytes)
        zeros == (119 - (n % 64)) % 64
        bits  == 8 * n
    IN  bytes \o <<128>> \o [i \in 1..zeros |-> 0]
        \o <<0, 0, 0, 0, (bits \div 16777216) % 256, (bits \div 65536) % 256,
             (bits \div 256) % 256, bits % 256>>

\* the t-th big-endian word (t from 0) of the block that starts after byte `off`
BlockWord(m, off, t) ==
    LET j == off + 4 * t
    IN  <<256 * m[j + 1] + m[j + 2], 256 * m[j + 3] + m[j + 4]>>

\* the message schedule, extended from 16 words to 64
RECURSIVE Schedule(_)
Schedule(w) ==
    IF Len(w) = 64 THEN w
    ELSE LET t == Len(w) + 1
         IN  Schedule(Append(w, Add(Add(SmallSigma1(w[t - 2]), w[t - 7]),
                                    Add(SmallSigma0(w[t - 15]), w[t - 16]))))

\* rounds t..64 on the working variables v = <<a, b, c, d, e, f, g, h>>
RECURSIVE Rounds(_, _, _)
Rounds(v, w, t) ==
    IF Len(v) = 8 /\ t > 64 THEN v
    ELSE LET t1 == Add(Add(Add(v[8], BigSigma1(v[5])), Add(Ch(v[5], v[6], v[7]), K256[t])),
                       w[t])
             t2 == Add(BigSigma0(v[1]), Maj(v[1], v[2], v[3]))
         IN  Rounds(<<Add(t1, t2), v[1], v[2], v[3], Add(v[4], t1), v[5], v[6], v[7]>>,
                    w, t + 1)

Compress(h, m, off) ==
    LET w == Schedule([t \in 1..16 |-> BlockWord(m, off, t - 1)])
        v == Rounds(h, w, 1)
    IN  [i \in 1..8 |-> Add(h[i], v[i])]

RECURSIVE Blocks(_, _, _)
Blocks(h, m, off) == IF off >= Len(m) THEN h ELSE Blocks(Compress(h, m, off), m, off + 64)

WordBytes(x) == <<x[1] \div 256, x[1] % 256, x[2] \div 256, x[2] % 256>>

\* hashlib.sha256(data).digest(): 32 bytes
sha256(bytes) ==
    LET h == Blocks(H256, Pad(bytes), 0)
    IN  WordBytes(h[1]) \o WordBytes(h[2]) \o WordBytes(h[3]) \o WordBytes(h[4])
        \o WordBytes(h[5]) \o WordBytes(h[6]) \o WordBytes(h[7]) \o WordBytes(h[8])

\* the code point of the lowercase hexadecimal digit of d, 0 <= d < 16
HexDigit(d) == IF d < 10 THEN 48 + d ELSE 87 + d

\* .hexdigest(): two lowercase hexadecimal digits a byte
hexdigest(bytes) ==
    [i \in 1..(2 * Len(bytes)) |->
        IF i % 2 = 1 THEN HexDigit(bytes[(i + 1) \div 2] \div 16)
        ELSE HexDigit(bytes[i \div 2] % 16)]

\* the literal "salty$"
Salt == <<115, 97, 108, 116, 121, 36>>

\* def hash_weak_password(s): return hashlib.sha256(("salty$" + s).encode()).hexdigest()
hash_weak_password(s) ==
    LET data == encode(Salt \o s)
    IN  IF data.kind = "raise" THEN data
        ELSE Returned(hexdigest(sha256(data.value)))

(***************************************************************************)
(* def make_id(k=8):                                                        *)
(*     return ''.join(random.choices(string.ascii_lowercase + string.digits, k=k)) *)
(* args is the tuple of positional arguments of the call: <<>> or <<k>>.    *)
(* Evaluating the body looks up the global names random and string; a name  *)
(* that is not bound raises NameError.  With both bound, random.choices     *)
(* draws k elements with replacement (none when k <= 0) and join            *)
(* concatenates them: the result is any string of that length over the      *)
(* alphabet.  The operator is the set of outcomes a call can have.          *)
(***************************************************************************)
choices(population, n) ==
    [1..(IF n < 0 THEN 0 ELSE n) -> {population[i] : i \in DOMAIN population}]

make_id(args) ==
    LET n == IF args = <<>> THEN DefaultK ELSE args[1]
    IN  IF ~({"random", "string"} \subseteq ModuleGlobals)
        THEN {Raised("NameError")}
        ELSE {Returned(c) : c \in choices(Alphabet, n)}

(***************************************************************************)
(* The callers.  Each thread of the backend is idle or inside a call of one *)
(* of the three functions; the calls of the threads interleave freely.      *)
(* Every call of a behaviour passes the string input (to hash_weak_password *)
(* and remove_unwanted_characters) and the arguments kargs (to make_id),    *)
(* both drawn when the behaviour starts.  history holds the completed calls. *)
(***************************************************************************)
Threads == {1, 2}

Functions == {"make_id", "hash_weak_password", "remove_unwanted_characters"}

\* the characters the strings are drawn over: '<', '>', e-acute, a lone surrogate
Chars == {60, 62, 233, 55296}

\* "password"
Password == <<112, 97, 115, 115, 119, 111, 114, 100>>

\* the euro sign then U+1F600: three and four bytes in UTF-8
Wide == <<8364, 128512>>

\* <&"'>< : markup characters around two '<'
Markup == <<60, 38, 34, 39, 62, 60>>

Strings == UNION {[1..n -> Chars] : n \in 0..MaxLen} \cup {Password, Wide, Markup}

KArgs == {<<>>} \cup {<<n>> : n \in (-1)..MaxK}

\* hash_weak_password over the strings of the model, tabulated once: the pairs
\* <<str, hash_weak_password(str)>>
Digests == {<<str, hash_weak_password(str)>> : str \in Strings}

\* the outcome of hash_weak_password(str), read from the table
Digest(str) == (CHOOSE p \in Digests : p[1] = str)[2]

\* a digest that also depends on the calling thread: its number is mixed into the salt
ThreadSaltedDigests ==
    {<<t, str, hash_weak_password(<<48 + t>> \o str)>> : t \in Threads, str \in Strings}

ThreadSaltedDigest(t, str) ==
    (CHOOSE p \in ThreadSaltedDigests : p[1] = t /\ p[2] = str)[3]

vars == <<input, kargs, pc, history>>

Completed(t, f, o) == [thread |-> t, fn |-> f, outcome |-> o]

Init ==
    /\ input \in Strings
    /\ kargs \in KArgs
    /\ pc = [t \in Threads |-> "idle"]
    /\ history = {}

\* thread t calls function f
Call(t, f) ==
    /\ pc[t] = "idle"
    /\ pc' = [pc EXCEPT ![t] = f]
    /\ UNCHANGED <<input, kargs, history>>

\* the call of make_id by thread t runs and ends
make_id_ends(t) ==
    /\ pc[t] = "make_id"
    /\ \E o \in make_id(kargs) :
         history' = history \cup {Completed(t, "make_id", o)}
    /\ pc' = [pc EXCEPT ![t] = "idle"]
    /\ UNCHANGED <<input, kargs>>

\* hash_weak_password with a salt of the calling thread's own
hash_with_thread_salt_ends(t) ==
    /\ pc[t] = "hash_weak_password"
    /\ history' = history \cup
           {Completed(t, "hash_weak_password", ThreadSaltedDigest(t, input))}
    /\ pc' = [pc EXCEPT ![t] = "idle"]
    /\ UNCHANGED <<input, kargs>>

\* the call of hash_weak_password by thread t runs and ends
hash_weak_password_ends(t) ==
    /\ pc[t] = "hash_weak_password"
    /\ history' = history \cup {Completed(t, "hash_weak_password", Digest(input))}
    /\ pc' = [pc EXCEPT ![t] = "idle"]
    /\ UNCHANGED <<input, kargs>>

\* the call of remove_unwanted_characters by thread t runs and ends
remove_unwanted_characters_ends(t) ==
    /\ pc[t] = "remove_unwanted_characters"
    /\ history' = history \cup
           {Completed(t, "remove_unwanted_characters", remove_unwanted_characters(input))}
    /\ pc' = [pc EXCEPT ![t] = "idle"]
    /\ UNCHANGED <<input, kargs>>

Next ==
    \E t \in Threads :
        \/ \E f \in Functions : Call(t, f)
        \/ make_id_ends(t)
        \/ hash_weak_password_ends(t)
        \/ remove_unwanted_characters_ends(t)

Spec == Init /\ [][Next]_vars

(***************************************************************************)
(* The properties.  Each is stated over the calls that have ended.          *)
(***************************************************************************)
Calls(f) == {r \in history : r.fn = f}

\* the length a call of make_id asks for
AskedLength == IF kargs = <<>> THEN 8 ELSE kargs[1]

\* the code points of [a-z0-9]
IdChars == (97..122) \cup (48..57)

\* the code points of the lowercase hexadecimal digits
HexChars == (48..57) \cup (97..102)

\* the number of '<' in str
CountLT(str) == Cardinality({i \in DOMAIN str : str[i] = 60})

NotLT(c) == c # 60

\* "salty$" + str in UTF-8, hashed and rendered, for each string of the model
ExpectedDigests ==
    {<<str, hexdigest(sha256(utf8(<<115, 97, 108, 116, 121, 36>> \o str)))>> : str \in Strings}

ExpectedDigest(str) == (CHOOSE p \in ExpectedDigests : p[1] = str)[2]

\* the SHA-256 of the bytes salty$password, in hexadecimal:
\* 4c7607a637d8c0e9f144ed9c159f71416cd9fc83457a70a475556f9a1b6ee3e0
PasswordDigest ==
    << 52, 99, 55, 54, 48, 55, 97, 54, 51, 55, 100, 56, 99, 48, 101, 57,
       102, 49, 52, 52, 101, 100, 57, 99, 49, 53, 57, 102, 55, 49, 52, 49,
       54, 99, 100, 57, 102, 99, 56, 51, 52, 53, 55, 97, 55, 48, 97, 52,
       55, 53, 53, 53, 54, 102, 57, 97, 49, 98, 54, 101, 101, 51, 101, 48 >>

\* the SHA-256 of the bytes salty$, in hexadecimal:
\* 197eebc41e268d53e071432f068c3365be4fd445bb08311cb6fc2495ac58bf92
EmptyDigest ==
    << 49, 57, 55, 101, 101, 98, 99, 52, 49, 101, 50, 54, 56, 100, 53, 51,
       101, 48, 55, 49, 52, 51, 50, 102, 48, 54, 56, 99, 51, 51, 54, 53,
       98, 101, 52, 102, 100, 52, 52, 53, 98, 98, 48, 56, 51, 49, 49, 99,
       98, 54, 102, 99, 50, 52, 57, 53, 97, 99, 53, 56, 98, 102, 57, 50 >>

\* C1: every call make_id(k) with k >= 0, or make_id() with the default k = 8,
\* returns a string of exactly k characters, each in [a-z0-9].
C1_MakeIdReturnsIdentifier ==
    \A r \in Calls("make_id") :
        AskedLength >= 0 =>
            /\ r.outcome.kind = "return"
            /\ Len(r.outcome.value) = AskedLength
            /\ \A i \in DOMAIN r.outcome.value : r.outcome.value[i] \in IdChars

\* C2: remove_unwanted_characters(s) has no '<' and is s with every '<' deleted,
\* the other characters unchanged and in the same order.
C2_RemovesEveryLT ==
    \A r \in Calls("remove_unwanted_characters") :
        /\ r.outcome.kind = "return"
        /\ \A i \in DOMAIN r.outcome.value : r.outcome.value[i] # 60
        /\ r.outcome.value = SelectSeq(input, NotLT)

\* a call on the string <&"'>< has ended
C2_Witness ==
    /\ input = Markup
    /\ Calls("remove_unwanted_characters") # {}

\* C3: for every string s, hash_weak_password(s) is the SHA-256 of the UTF-8
\* bytes of "salty$" + s in hexadecimal; the digests of salty$password and of
\* salty$ are the known ones.
C3_DigestOfSaltedString ==
    \A r \in Calls("hash_weak_password") :
        /\ r.outcome.kind = "return"
        /\ r.outcome.value = ExpectedDigest(input)
        /\ input = Password => r.outcome.value = PasswordDigest
        /\ input = <<>> => r.outcome.value = EmptyDigest

\* C4: for every string s, hash_weak_password(s) ends without raising.
C4_HashNeverRaises ==
    \A r \in Calls("hash_weak_password") : r.outcome.kind = "return"

\* C5: a call of make_id with k < 0 fails with an invalid-argument error.
C5_NegativeLengthRejected ==
    \A r \in Calls("make_id") :
        AskedLength < 0 =>
            /\ r.outcome.kind = "raise"
            /\ r.outcome.exc \in {"ValueError", "TypeError"}

\* C6: for every string s, the result of hash_weak_password(s) is 64 characters,
\* each a lowercase hexadecimal digit.
C6_DigestIs64HexChars ==
    \A r \in Calls("hash_weak_password") :
        /\ r.outcome.kind = "return"
        /\ Len(r.outcome.value) = 64
        /\ \A i \in DOMAIN r.outcome.value : r.outcome.value[i] \in HexChars

C8_RemoveIdempotent ==
    \A r \in Calls("remove_unwanted_characters") :
        r.outcome.kind = "return"
        /\ remove_unwanted_characters(r.outcome.value) = r.outcome

\* a call on a string with at least two '<' has ended
C8_Witness ==
    /\ CountLT(input) >= 2
    /\ Calls("remove_unwanted_characters") # {}

\* C9: under every interleaving of the threads, the calls of
\* hash_weak_password and of remove_unwanted_characters have the outcome of the
\* function alone, and every call of make_id returns a string of the asked
\* length over [a-z0-9].
C9_SafeUnderInterleaving ==
    /\ \A r \in Calls("hash_weak_password") : r.outcome = Digest(input)
    /\ \A r \in Calls("remove_unwanted_characters") :
           r.outcome = Returned(SelectSeq(input, NotLT))
    /\ \A r \in Calls("make_id") :
           /\ r.outcome.kind = "return"
           /\ Len(r.outcome.value) = (IF AskedLength < 0 THEN 0 ELSE AskedLength)
           /\ \A i \in DOMAIN r.outcome.value : r.outcome.value[i] \in IdChars

\* C10: the length of remove_unwanted_characters(s) is the length of s minus
\* the number of '<' in s; the empty string gives the empty string and a string
\* without '<' is returned unchanged.
C10_LengthDropsByCountOfLT ==
    \A r \in Calls("remove_unwanted_characters") :
        /\ r.outcome.kind = "return"
        /\ Len(r.outcome.value) = Len(input) - CountLT(input)
        /\ input = <<>> => r.outcome.value = <<>>
        /\ CountLT(input) = 0 => r.outcome.value = input

\* a call on a string that mixes '<' with other characters has ended
C10_Witness ==
    /\ CountLT(input) >= 1
    /\ CountLT(input) < Len(input)
    /\ Calls("remove_unwanted_characters") # {}

(***************************************************************************)
(* What does hold of hash_weak_password: on every string without a          *)
(* surrogate it returns the expected digest, 64 lowercase hexadecimal       *)
(* digits, and it raises UnicodeEncodeError on every other string.          *)
(***************************************************************************)
HasSurrogate(str) == \E i \in DOMAIN str : str[i] >= 55296 /\ str[i] <= 57343

HashOnEncodableStrings ==
    \A r \in Calls("hash_weak_password") :
        IF HasSurrogate(input)
        THEN r.outcome.kind = "raise" /\ r.outcome.exc = "UnicodeEncodeError"
        ELSE /\ r.outcome.kind = "return"
             /\ r.outcome.value = ExpectedDigest(input)
             /\ Len(r.outcome.value) = 64
             /\ \A i \in DOMAIN r.outcome.value : r.outcome.value[i] \in HexChars
             /\ input = Password => r.outcome.value = PasswordDigest
             /\ input = <<>> => r.outcome.value = EmptyDigest

====
